---- MODULE Spec2Model ----
(***************************************************************************)
(* The rlox scanner (src/src/main.rs, duplicated in src/src/scan/mod.rs).  *)
(*                                                                         *)
(* The source text is a Rust String.  It is modelled as a sequence of      *)
(* characters, each with the number of bytes of its UTF-8 encoding:        *)
(* source.len() and the slices source[a..b] count BYTES, while             *)
(* source.chars().nth(n) counts CHARACTERS.  The cursor fields start and   *)
(* current are used for both, exactly as in the code.  A panic (unwrap of  *)
(* None, a slice at an offset that is no character boundary) is an outcome *)
(* of its own.                                                             *)
(***************************************************************************)
EXTENDS Integers, Sequences, FiniteSets, TLC

VARIABLES
    source,     \* Scanner.source, as a sequence of characters
    tokens,     \* Scanner.tokens
    start,      \* Scanner.start
    current,    \* Scanner.current
    line,       \* Scanner.line
    pc,         \* where the call scan_tokens() is: scanning, returned, failed, panicked
    returned,   \* the Vec<Token> of Ok(..), as the caller got it
    errors,     \* the errors the call returned as Err(..)
    panic,      \* the operation that panicked, or "none"
    spans,      \* history: <<start, current>> of every add_token_literal
    calls       \* the number of calls of scan_tokens() on this Scanner so far

vars ==
    <<source, tokens, start, current, line, pc, returned, errors, panic, spans, calls>>

----------------------------------------------------------------------------
\* Bounds of the model.

\* Every source text of at most MaxLen characters over Alphabet is scanned.
MaxLen == 3
\* A prefix and a word are followed by every tail of at most MaxTail characters.
MaxTail == 1
\* scan_tokens() is called at most MaxCalls times on one Scanner.
MaxCalls == 2

----------------------------------------------------------------------------
\* Characters.

\* '\0', what peek and peek_next return at the end of input.
NUL == "NUL"
\* None, what chars().nth(n) returns when the text has no n-th character.
NONE == "None"
\* U+00E9, a letter whose UTF-8 encoding takes two bytes.
EAcute == "U+00E9"

AsciiLower ==
    {"a", "b", "c", "d", "e", "f", "g", "h", "i", "j", "k", "l", "m",
     "n", "o", "p", "q", "r", "s", "t", "u", "v", "w", "x", "y", "z"}

AsciiUpper ==
    {"A", "B", "C", "D", "E", "F", "G", "H", "I", "J", "K", "L", "M",
     "N", "O", "P", "Q", "R", "S", "T", "U", "V", "W", "X", "Y", "Z"}

AsciiDigit == {"0", "1", "2", "3", "4", "5", "6", "7", "8", "9"}

\* char::is_digit(10)
IsDigit(c) == c \in AsciiDigit

\* IsAlphanumeric, were '_' taken as a letter.
IsAlphanumericOrUnderscore(c) ==
    c \in AsciiLower \cup AsciiUpper \cup AsciiDigit \cup {EAcute, "_"}

\* char::is_alphanumeric(): Unicode letters and digits; '_' and '\0' are neither.
IsAlphanumeric(c) == c \in AsciiLower \cup AsciiUpper \cup AsciiDigit \cup {EAcute}

\* The number of bytes of a character in the String.
Width(c) == IF c = EAcute THEN 2 ELSE 1

RECURSIVE ByteLen(_)
\* str.len(): the length in bytes.
ByteLen(s) == IF s = <<>> THEN 0 ELSE Width(Head(s)) + ByteLen(Tail(s))

\* The byte offset of the i-th character (0-based), and of the end for i = Len(s).
ByteOffset(s, i) == ByteLen(SubSeq(s, 1, i))

\* str::is_char_boundary(k)
IsCharBoundary(s, k) == \E i \in 0..Len(s) : ByteOffset(s, i) = k

\* Whether the slice s[a..b] is taken without a panic.
SliceOk(s, a, b) ==
    /\ a <= b
    /\ b <= ByteLen(s)
    /\ IsCharBoundary(s, a)
    /\ IsCharBoundary(s, b)

\* The slice s[a..b], where SliceOk(s, a, b).
SliceText(s, a, b) ==
    LET i == CHOOSE i \in 0..Len(s) : ByteOffset(s, i) = a
        j == CHOOSE j \in 0..Len(s) : ByteOffset(s, j) = b
    IN  SubSeq(s, i + 1, j)

\* s.chars().nth(n)
CharsNth(s, n) == IF n < Len(s) THEN s[n + 1] ELSE NONE

----------------------------------------------------------------------------
\* Tokens and errors.

Token(type, lexeme, literal, ln) ==
    [type |-> type, lexeme |-> lexeme, literal |-> literal, line |-> ln]

NoChar == ""

UnexpectedCharacter(c) == [kind |-> "UnexpectedCharacter", char |-> c]

UnterminatedString == [kind |-> "UnterminatedString", char |-> NoChar]

\* The results of a step of the scanner on the fields s: Ok(()), Err(e)?, a panic.
Done(s) == [out |-> "ok", s |-> s, err |-> UnterminatedString, panic |-> "none"]

Fail(s, e) == [out |-> "err", s |-> s, err |-> e, panic |-> "none"]

Panic(s, op) == [out |-> "panic", s |-> s, err |-> UnterminatedString, panic |-> op]

----------------------------------------------------------------------------
\* The cursor.

\* IsAtEnd, were the comparison > instead of >=.
IsAtEndLate(cur) == cur > ByteLen(source)

\* is_at_end(): self.current >= self.source.len()
IsAtEnd(cur) == cur >= ByteLen(source)

\* peek(): NONE stands for the panic of unwrap().
Peek(cur) == IF IsAtEnd(cur) THEN NUL ELSE CharsNth(source, cur)

\* peek_next(): NONE stands for the panic of unwrap().
PeekNext(cur) == IF cur + 1 >= ByteLen(source) THEN NUL ELSE CharsNth(source, cur + 1)

\* advance(): the character it returns (NONE: unwrap() panics).
AdvanceChar(s) == CharsNth(source, s.current)

\* advance(): the fields after self.current += 1.
Advanced(s) == [s EXCEPT !.current = @ + 1]

\* MatchChar, were the character not compared.
MatchCharAny(cur, expected) == IF IsAtEnd(cur) THEN FALSE ELSE TRUE

\* match_char(expected): whether it consumes the character.
MatchChar(cur, expected) ==
    IF IsAtEnd(cur) THEN FALSE
    ELSE IF CharsNth(source, cur) # expected THEN FALSE
    ELSE TRUE

\* AddTokenLiteral, were the lexeme sliced one byte late.
AddTokenLiteralLate(s, type, literal) ==
    IF SliceOk(source, s.start + 1, s.current)
    THEN Done([s EXCEPT
                 !.tokens = Append(@, Token(type,
                               SliceText(source, s.start + 1, s.current), literal, s.line)),
                 !.spans = Append(@, <<s.start, s.current>>)])
    ELSE Panic(s, "slice")

\* add_token_literal: the lexeme is the slice source[start..current].
AddTokenLiteral(s, type, literal) ==
    IF SliceOk(source, s.start, s.current)
    THEN Done([s EXCEPT
                 !.tokens = Append(@, Token(type,
                               SliceText(source, s.start, s.current), literal, s.line)),
                 !.spans = Append(@, <<s.start, s.current>>)])
    ELSE Panic(s, "slice")

AddToken(s, type) == AddTokenLiteral(s, type, <<>>)

----------------------------------------------------------------------------
\* The sub-scans.

\* IdentifierType, were the arms of "for" and "fun" exchanged.
IdentifierTypeExchanged(text) ==
    CASE text = <<"a", "n", "d">> -> "And"
      [] text = <<"c", "l", "a", "s", "s">> -> "Class"
      [] text = <<"e", "l", "s", "e">> -> "Else"
      [] text = <<"f", "a", "l", "s", "e">> -> "False"
      [] text = <<"f", "u", "n">> -> "For"
      [] text = <<"f", "o", "r">> -> "Fun"
      [] text = <<"i", "f">> -> "If"
      [] text = <<"n", "i", "l">> -> "Nil"
      [] text = <<"o", "r">> -> "Or"
      [] text = <<"p", "r", "i", "n", "t">> -> "Print"
      [] text = <<"r", "e", "t", "u", "r", "n">> -> "Return"
      [] text = <<"s", "u", "p", "e", "r">> -> "Super"
      [] text = <<"t", "h", "i", "s">> -> "This"
      [] text = <<"t", "r", "u", "e">> -> "True"
      [] text = <<"v", "a", "r">> -> "Var"
      [] text = <<"w", "h", "i", "l", "e">> -> "While"
      [] OTHER -> "Identifier"

\* The match of identifier(): the kind of the keyword text, else Identifier.
IdentifierType(text) ==
    CASE text = <<"a", "n", "d">> -> "And"
      [] text = <<"c", "l", "a", "s", "s">> -> "Class"
      [] text = <<"e", "l", "s", "e">> -> "Else"
      [] text = <<"f", "a", "l", "s", "e">> -> "False"
      [] text = <<"f", "o", "r">> -> "For"
      [] text = <<"f", "u", "n">> -> "Fun"
      [] text = <<"i", "f">> -> "If"
      [] text = <<"n", "i", "l">> -> "Nil"
      [] text = <<"o", "r">> -> "Or"
      [] text = <<"p", "r", "i", "n", "t">> -> "Print"
      [] text = <<"r", "e", "t", "u", "r", "n">> -> "Return"
      [] text = <<"s", "u", "p", "e", "r">> -> "Super"
      [] text = <<"t", "h", "i", "s">> -> "This"
      [] text = <<"t", "r", "u", "e">> -> "True"
      [] text = <<"v", "a", "r">> -> "Var"
      [] text = <<"w", "h", "i", "l", "e">> -> "While"
      [] OTHER -> "Identifier"

RECURSIVE IdentifierLoop(_)
\* while self.peek().is_alphanumeric() { self.advance(); }
IdentifierLoop(s) ==
    IF Peek(s.current) = NONE THEN Panic(s, "peek")
    ELSE IF ~IsAlphanumeric(Peek(s.current)) THEN Done(s)
    ELSE IF AdvanceChar(s) = NONE THEN Panic(Advanced(s), "advance")
    ELSE IdentifierLoop(Advanced(s))

\* match text { keyword => add_token(..), _ => add_token_literal(Identifier, text) }
IdentifierAdd(s, text) ==
    IF IdentifierType(text) # "Identifier"
    THEN AddToken(s, IdentifierType(text))
    ELSE AddTokenLiteral(s, "Identifier", text)

\* identifier(), after its loop: text = &self.source[self.start..self.current]
IdentifierEmit(l) ==
    IF l.out # "ok" THEN l
    ELSE IF ~SliceOk(source, l.s.start, l.s.current) THEN Panic(l.s, "slice")
    ELSE IdentifierAdd(l.s, SliceText(source, l.s.start, l.s.current))

Identifier(s) == IdentifierEmit(IdentifierLoop(s))

RECURSIVE DigitLoop(_)
\* while self.peek().is_digit(10) { self.advance(); }
DigitLoop(s) ==
    IF Peek(s.current) = NONE THEN Panic(s, "peek")
    ELSE IF ~IsDigit(Peek(s.current)) THEN Done(s)
    ELSE IF AdvanceChar(s) = NONE THEN Panic(Advanced(s), "advance")
    ELSE DigitLoop(Advanced(s))

\* FractionAhead, were the character behind the '.' not looked at.
FractionAheadOfDot(cur) ==
    IF Peek(cur) = NONE THEN "peek"
    ELSE IF Peek(cur) # "." THEN "no"
    ELSE "yes"

\* self.peek() == '.' && self.peek_next().is_digit(10): "yes", "no" or the panic.
FractionAhead(cur) ==
    IF Peek(cur) = NONE THEN "peek"
    ELSE IF Peek(cur) # "." THEN "no"
    ELSE IF PeekNext(cur) = NONE THEN "peek_next"
    ELSE IF IsDigit(PeekNext(cur)) THEN "yes"
    ELSE "no"

\* if <fraction ahead> { self.advance(); while self.peek().is_digit(10) { .. } }
Fraction(s, f) ==
    IF f = "no" THEN Done(s)
    ELSE IF f # "yes" THEN Panic(s, f)
    ELSE IF AdvanceChar(s) = NONE THEN Panic(Advanced(s), "advance")
    ELSE DigitLoop(Advanced(s))

\* number(), after its first loop.
NumberFraction(l) ==
    IF l.out # "ok" THEN l ELSE Fraction(l.s, FractionAhead(l.s.current))

\* number(), after the fraction: the literal is source[start..current].
NumberEmit(m) ==
    IF m.out # "ok" THEN m
    ELSE IF ~SliceOk(source, m.s.start, m.s.current) THEN Panic(m.s, "slice")
    ELSE AddTokenLiteral(m.s, "Number", SliceText(source, m.s.start, m.s.current))

Number(s) == NumberEmit(NumberFraction(DigitLoop(s)))

RECURSIVE StringLoopUncounted(_)
\* StringLoop, were a line feed inside the literal not counted.
StringLoopUncounted(s) ==
    IF Peek(s.current) = NONE THEN Panic(s, "peek")
    ELSE IF ~(Peek(s.current) # "\"" /\ ~IsAtEnd(s.current)) THEN Done(s)
    ELSE IF AdvanceChar(s) = NONE THEN Panic(Advanced(s), "advance")
    ELSE StringLoopUncounted(Advanced(s))

RECURSIVE StringLoop(_)
\* while self.peek() != '"' && !self.is_at_end() { count a '\n'; self.advance(); }
StringLoop(s) ==
    IF Peek(s.current) = NONE THEN Panic(s, "peek")
    ELSE IF ~(Peek(s.current) # "\"" /\ ~IsAtEnd(s.current)) THEN Done(s)
    ELSE IF AdvanceChar(s) = NONE THEN Panic(Advanced(s), "advance")
    ELSE IF Peek(s.current) = "\n"
         THEN StringLoop([s EXCEPT !.line = @ + 1, !.current = @ + 1])
         ELSE StringLoop(Advanced(s))

\* string(), after the closing quote: the literal is source[start + 1..current - 1].
StringEmit(s) ==
    IF ~SliceOk(source, s.start + 1, s.current - 1) THEN Panic(s, "slice")
    ELSE AddTokenLiteral(s, "String", SliceText(source, s.start + 1, s.current - 1))

\* string(), after its loop.
StringClose(l) ==
    IF l.out # "ok" THEN l
    ELSE IF IsAtEnd(l.s.current) THEN Fail(l.s, UnterminatedString)
    ELSE IF AdvanceChar(l.s) = NONE THEN Panic(Advanced(l.s), "advance")
    ELSE StringEmit(Advanced(l.s))

String(s) == StringClose(StringLoop(s))

RECURSIVE CommentLoop(_)
\* while self.peek() != '\n' && !self.is_at_end() { self.advance(); }
CommentLoop(s) ==
    IF Peek(s.current) = NONE THEN Panic(s, "peek")
    ELSE IF ~(Peek(s.current) # "\n" /\ ~IsAtEnd(s.current)) THEN Done(s)
    ELSE IF AdvanceChar(s) = NONE THEN Panic(Advanced(s), "advance")
    ELSE CommentLoop(Advanced(s))

----------------------------------------------------------------------------
\* The dispatcher.

SingleChars == {"(", ")", "{", "}", ",", ".", "-", "+", ";", "*"}

SingleCharType(c) ==
    CASE c = "(" -> "LeftParen"
      [] c = ")" -> "RightParen"
      [] c = "{" -> "LeftBrace"
      [] c = "}" -> "RightBrace"
      [] c = "," -> "Comma"
      [] c = "." -> "Dot"
      [] c = "-" -> "Minus"
      [] c = "+" -> "Plus"
      [] c = ";" -> "Semicolon"
      [] c = "*" -> "Star"

OperatorChars == {"!", "=", "<", ">"}

OneCharType(c) ==
    CASE c = "!" -> "Bang"
      [] c = "=" -> "Equal"
      [] c = "<" -> "Less"
      [] c = ">" -> "Greater"

TwoCharType(c) ==
    CASE c = "!" -> "BangEqual"
      [] c = "=" -> "EqualEqual"
      [] c = "<" -> "LessEqual"
      [] c = ">" -> "GreaterEqual"

\* The arms '!', '=', '<', '>' of scan_token, after advance().
Operator(s, c) ==
    IF MatchChar(s.current, "=")
    THEN AddToken([s EXCEPT !.current = @ + 1], TwoCharType(c))
    ELSE AddToken(s, OneCharType(c))

\* The arm '/' of scan_token, after advance().
Slash(s) ==
    IF MatchChar(s.current, "/")
    THEN CommentLoop([s EXCEPT !.current = @ + 1])
    ELSE AddToken(s, "Slash")

Blank == {" ", "\r", "\t"}

\* Newline, were the line feed skipped like other white space.
NewlineUncounted(s) == Done(s)

\* The arm '\n' of scan_token.
Newline(s) == Done([s EXCEPT !.line = @ + 1])

\* IdentifierStart, were the arm of '_' missing.
IdentifierStartLetters == AsciiLower \cup AsciiUpper

\* The arm 'a'..='z' | 'A'..='Z' | '_' of scan_token.
IdentifierStart == AsciiLower \cup AsciiUpper \cup {"_"}

\* scan_token(), after let c = self.advance().
Dispatch(s, c) ==
    IF c = NONE THEN Panic(s, "advance")
    ELSE IF c \in SingleChars THEN AddToken(s, SingleCharType(c))
    ELSE IF c \in OperatorChars THEN Operator(s, c)
    ELSE IF c = "/" THEN Slash(s)
    ELSE IF c \in Blank THEN Done(s)
    ELSE IF c = "\n" THEN Newline(s)
    ELSE IF c = "\"" THEN String(s)
    ELSE IF c \in AsciiDigit THEN Number(s)
    ELSE IF c \in IdentifierStart THEN Identifier(s)
    ELSE Fail(s, UnexpectedCharacter(c))

\* scan_token()
ScanToken(s) == Dispatch(Advanced(s), AdvanceChar(s))

----------------------------------------------------------------------------
\* scan_tokens(): one action per arm of the dispatcher, one for the return.

\* The fields as scan_token() finds them: self.start = self.current.
Fields ==
    [tokens |-> tokens, spans |-> spans, start |-> current,
     current |-> current, line |-> line]

\* LoopControl, were an error recorded and the scan resumed behind it.
LoopControlResuming(r) ==
    CASE r.out = "ok" -> "scanning"
      [] r.out = "err" -> "scanning"
      [] r.out = "panic" -> "panicked"

\* self.scan_token()?: the loop goes on only after Ok(()).
LoopControl(r) ==
    CASE r.out = "ok" -> "scanning"
      [] r.out = "err" -> "failed"
      [] r.out = "panic" -> "panicked"

EofToken(ln) == Token("Eof", <<>>, <<>>, ln)

\* PushEof, were the Eof token pushed only behind other tokens.
PushEofBehindTokens(ts, ln) == IF ts = <<>> THEN ts ELSE Append(ts, EofToken(ln))

\* self.tokens.push(Token { Eof, .. }) after the loop.
PushEof(ts, ln) == Append(ts, EofToken(ln))

\* What scan_token() leaves in the fields, and how the loop goes on.
Apply(r) ==
    /\ tokens' = r.s.tokens
    /\ spans' = r.s.spans
    /\ start' = r.s.start
    /\ current' = r.s.current
    /\ line' = r.s.line
    /\ pc' = LoopControl(r)
    /\ errors' = IF r.out = "err" THEN Append(errors, r.err) ELSE errors
    /\ panic' = r.panic
    /\ UNCHANGED <<source, returned, calls>>

\* One iteration of the loop of scan_tokens.
Iterate == Apply(ScanToken(Fields))

\* The loop is entered, and advance() is about to return c.
Dispatching(c) == pc = "scanning" /\ ~IsAtEnd(current) /\ CharsNth(source, current) = c

ScanPunctuation == (\E c \in SingleChars : Dispatching(c)) /\ Iterate

ScanOperator == (\E c \in OperatorChars : Dispatching(c)) /\ Iterate

ScanSlash == Dispatching("/") /\ Iterate

ScanBlank == (\E c \in Blank : Dispatching(c)) /\ Iterate

ScanNewline == Dispatching("\n") /\ Iterate

ScanString == Dispatching("\"") /\ Iterate

ScanNumber == (\E c \in AsciiDigit : Dispatching(c)) /\ Iterate

ScanIdentifier == (\E c \in IdentifierStart : Dispatching(c)) /\ Iterate

Recognized ==
    SingleChars \cup OperatorChars \cup {"/"} \cup Blank \cup {"\n", "\""}
        \cup AsciiDigit \cup IdentifierStart

ScanUnexpected ==
    /\ pc = "scanning" /\ ~IsAtEnd(current)
    /\ CharsNth(source, current) \notin Recognized \cup {NONE}
    /\ Iterate

\* current is below source.len() and the text has no such character.
ScanPastLastChar == Dispatching(NONE) /\ Iterate

\* The loop is left: the Eof token is pushed and the tokens are returned.
ReturnTokens ==
    /\ pc = "scanning" /\ IsAtEnd(current)
    /\ tokens' = PushEof(tokens, line)
    /\ returned' = tokens'
    /\ pc' = "returned"
    /\ UNCHANGED <<source, start, current, line, errors, panic, spans, calls>>

----------------------------------------------------------------------------
\* The source texts that are scanned.

Alphabet ==
    {"(", ".", "!", "=", "<", "/", " ", "\n", "\"", "1", "a", "_", "@", EAcute}

SeqsUpTo(S, n) == UNION {[1..k -> S] : k \in 0..n}

\* Texts that come before a word: nothing, a line, a comment with a two-byte
\* character.
Prefixes ==
    {<<>>, <<"\n">>, <<"/", "/", EAcute, "\n">>}

Words ==
    {<<"a", "n", "d">>, <<"c", "l", "a", "s", "s">>, <<"e", "l", "s", "e">>,
     <<"f", "a", "l", "s", "e">>, <<"f", "o", "r">>, <<"f", "u", "n">>,
     <<"i", "f">>, <<"n", "i", "l">>, <<"o", "r">>,
     <<"p", "r", "i", "n", "t">>, <<"r", "e", "t", "u", "r", "n">>,
     <<"s", "u", "p", "e", "r">>, <<"t", "h", "i", "s">>, <<"t", "r", "u", "e">>,
     <<"v", "a", "r">>, <<"w", "h", "i", "l", "e">>,
     <<"P", "r", "i", "n", "t">>, <<"p", "r", "i", "n", "t", "e", "r">>,
     <<"p", "r", "i", "n", "t", " ", "p", "r", "i", "n", "t", "e", "r">>,
     <<"p", "r", "i", "n">>, <<"O", "R">>, <<"i", "f", "1">>,
     <<"!", "=">>, <<"=", "=">>, <<"<", "=">>, <<">", "=">>, <<">">>, <<"<", " ", "=">>,
     <<"1", "2", ".", "3", "4">>, <<"1", "2", ".">>, <<".", "5">>, <<"1", ".", "2", ".", "3">>,
     <<"\"", "a", "\n", "b", "\"">>, <<"\"", "a", "b">>,
     <<"/", "/", " ", "c", "\n", "1">>, <<"a", "\n", "b", "\n", "c">>,
     <<"\"", EAcute, EAcute, "\"">>, <<"\t", "\r", "}", "{", ")", ",", "-", "+", ";", "*">>,
     <<"\"", "@", "\"">>, <<"/", "/", "@", "\n">>,
     <<"/", "/", "\n", "\"", "\n", "\"", "\n">>,
     <<"a", "_", "b">>, <<"p", "r", "i", "n", "t", "_", "x">>, <<"_", "_", "1">>}

Sources ==
    SeqsUpTo(Alphabet, MaxLen)
        \cup {p \o w \o t : p \in Prefixes, w \in Words, t \in SeqsUpTo(Alphabet, MaxTail)}

\* Scanner::new(source), and scan_tokens() called.
Init ==
    /\ source \in Sources
    /\ tokens = <<>>
    /\ start = 0
    /\ current = 0
    /\ line = 1
    /\ pc = "scanning"
    /\ returned = <<>>
    /\ errors = <<>>
    /\ panic = "none"
    /\ spans = <<>>
    /\ calls = 1

Next ==
    \/ ScanPunctuation
    \/ ScanOperator
    \/ ScanSlash
    \/ ScanBlank
    \/ ScanNewline
    \/ ScanString
    \/ ScanNumber
    \/ ScanIdentifier
    \/ ScanUnexpected
    \/ ScanPastLastChar
    \/ ReturnTokens

Spec == Init /\ [][Next]_vars

\* scan_tokens() is called again on the same Scanner, after Ok(..) or Err(..):
\* the call begins at the loop test, with the fields as the last call left them.
ScanTokensAgain ==
    /\ pc \in {"returned", "failed"}
    /\ calls < MaxCalls
    /\ calls' = calls + 1
    /\ pc' = "scanning"
    /\ returned' = <<>>
    /\ errors' = <<>>
    /\ UNCHANGED <<source, tokens, start, current, line, panic, spans>>

NextRescan == Next \/ ScanTokensAgain

\* A caller that keeps the Scanner and calls scan_tokens() on it again.
SpecRescan == Init /\ [][NextRescan]_vars

\* The fields of Scanner::new(source).
New == [tokens |-> <<>>, spans |-> <<>>, start |-> 0, current |-> 0, line |-> 1]

RECURSIVE ScanLoop(_)
RECURSIVE ScanNext(_)
\* scan_tokens() as a function of the fields: the loop, then the Eof token.
ScanLoop(s) ==
    IF IsAtEnd(s.current)
    THEN Done([s EXCEPT !.tokens = PushEof(s.tokens, s.line)])
    ELSE ScanNext(ScanToken([s EXCEPT !.start = s.current]))

\* self.scan_token()?: the next iteration after Ok(()), else the result.
ScanNext(r) == IF r.out = "ok" THEN ScanLoop(r.s) ELSE r

\* The one scan of a new Scanner over the text.
FreshScan == ScanLoop(New)

----------------------------------------------------------------------------
\* What the claims speak of.

\* The character at the 0-based position p of the text, NONE past its end.
CharAt(p) == CharsNth(source, p)

\* The number of line feeds among the first k characters of the text.
LineFeedsBefore(k) == Cardinality({i \in 1..k : source[i] = "\n"})

\* The characters of the text that a span <<from, to>> covers.
SpanText(sp) == SubSeq(source, sp[1] + 1, sp[2])

\* The position p lies inside the span of a token.
InSomeSpan(p) == \E i \in DOMAIN spans : spans[i][1] <= p /\ p < spans[i][2]

\* The position p is skipped as white space or as part of a // line comment.
Skipped(p) ==
    /\ ~InSomeSpan(p)
    /\ \/ CharAt(p) \in {" ", "\r", "\t", "\n"}
       \/ \E q \in 0..p :
             /\ CharAt(q) = "/" /\ CharAt(q + 1) = "/"
             /\ ~InSomeSpan(q) /\ ~InSomeSpan(q + 1)
             /\ \A k \in q..p : CharAt(k) # "\n"

\* The last token the caller got.
LastReturned == returned[Len(returned)]

----------------------------------------------------------------------------
\* C1: every scan ends, either with a returned token sequence or with exactly
\* one error: in every state the scan has returned its tokens, has returned
\* one error, or can take a further step.
C1_ScanEndsWithTokensOrError ==
    \/ pc = "returned"
    \/ pc = "failed" /\ Len(errors) = 1
    \/ ENABLED Next

\* C2: a scan never crashes: peek, peek_next and advance never read a character
\* that does not exist, and no slice is taken at an invalid offset.
C2_NeverCrashes == panic = "none"

\* C3: the token sequence a successful scan returns is non-empty, its last
\* token is Eof with the empty lexeme, and no other token of it is Eof.
C3_ReturnedEndsInOneEof ==
    pc = "returned" =>
        /\ Len(returned) >= 1
        /\ LastReturned.type = "Eof"
        /\ LastReturned.lexeme = <<>>
        /\ \A i \in 1..(Len(returned) - 1) : returned[i].type # "Eof"

\* C3 happens: a scan returned tokens followed by Eof.
C3_Witness == pc = "returned" /\ Len(returned) >= 4

\* The error of a failed scan is the one of the construct that begins at start.
ErrorIsOfLexemeAtStart ==
    /\ start < Len(source)
    /\ errors[1].kind = "UnexpectedCharacter" =>
          /\ errors[1].char = CharAt(start)
          /\ current = start + 1
    /\ errors[1].kind = "UnterminatedString" =>
          /\ CharAt(start) = "\""
          /\ \A p \in (start + 1)..(Len(source) - 1) : CharAt(p) # "\""

\* C4: a failed scan is fail-fast.  No step follows a failure, and a step that
\* raises an error ends the scan with exactly that one error and returns no
\* token; the error is of the leftmost offending construct: it begins at
\* start, and every character before start is part of a token scanned before
\* or was skipped as white space or comment.
C4_FailFast ==
    [][/\ pc # "failed"
       /\ Len(errors') > 0 =>
             /\ pc' = "failed"
             /\ Len(errors') = 1
             /\ returned' = <<>>
             /\ ErrorIsOfLexemeAtStart'
             /\ \A i \in DOMAIN spans' : spans'[i][2] <= start'
             /\ \A p \in 0..(start' - 1) : InSomeSpan(p)' \/ Skipped(p)']_vars

\* C4 happens: a scan failed after it had produced tokens.
C4_Witness == pc = "failed" /\ Len(tokens) >= 2 /\ returned = <<>>

\* C5: round trip.  In a scan that returns, the spans of the tokens before Eof
\* are non-empty, increasing and disjoint, the lexeme of each is the text of
\* its span, and every character outside the spans is white space or part of
\* a // line comment.
C5_RoundTrip ==
    pc = "returned" =>
        /\ Len(spans) = Len(returned) - 1
        /\ \A i \in DOMAIN spans :
              /\ 0 <= spans[i][1] /\ spans[i][1] < spans[i][2]
              /\ spans[i][2] <= Len(source)
              /\ i > 1 => spans[i - 1][2] <= spans[i][1]
              /\ returned[i].lexeme = SpanText(spans[i])
        /\ \A p \in 0..(Len(source) - 1) : InSomeSpan(p) \/ Skipped(p)

\* C5 happens: tokens were returned of a text with white space and a comment.
C5_Witness ==
    /\ pc = "returned" /\ Len(returned) >= 3
    /\ \E p, q \in 0..(Len(source) - 1) :
          /\ Skipped(p) /\ CharAt(p) = " "
          /\ Skipped(q) /\ CharAt(q) = "c"

\* C6: the line of every token is the line of its first character: 1 plus the
\* number of line feeds before its start.
C6_TokenLineIsLineOfFirstChar ==
    \A i \in DOMAIN spans : tokens[i].line = 1 + LineFeedsBefore(spans[i][1])

\* The line of the last character of the text, 1 for the empty text.
LineOfLastChar ==
    IF source = <<>> THEN 1 ELSE 1 + LineFeedsBefore(Len(source) - 1)

\* C7, as claimed: the line of the Eof token is the line of the last consumed
\* character of the text, 1 for the empty text.
C7_EofLineIsLineOfLastChar ==
    pc = "returned" => LastReturned.line = LineOfLastChar

\* C7, amended: the line of the Eof token is the line of the last consumed
\* character, and one more when that character is a line feed.
C7_EofLineIsLineAfterLastChar ==
    pc = "returned" =>
        LastReturned.line =
            LineOfLastChar
                + (IF source # <<>> /\ source[Len(source)] = "\n" THEN 1 ELSE 0)

\* C7 happens: a text of several lines that ends in a line feed was scanned.
C7_Witness ==
    /\ pc = "returned" /\ Len(source) >= 3
    /\ source[Len(source)] = "\n" /\ LineFeedsBefore(Len(source)) >= 2

\* The sixteen reserved words, each with the kind of its token.
ReservedWords ==
    {<<"And", <<"a", "n", "d">> >>, <<"Class", <<"c", "l", "a", "s", "s">> >>,
     <<"Else", <<"e", "l", "s", "e">> >>, <<"False", <<"f", "a", "l", "s", "e">> >>,
     <<"For", <<"f", "o", "r">> >>, <<"Fun", <<"f", "u", "n">> >>,
     <<"If", <<"i", "f">> >>, <<"Nil", <<"n", "i", "l">> >>, <<"Or", <<"o", "r">> >>,
     <<"Print", <<"p", "r", "i", "n", "t">> >>,
     <<"Return", <<"r", "e", "t", "u", "r", "n">> >>,
     <<"Super", <<"s", "u", "p", "e", "r">> >>, <<"This", <<"t", "h", "i", "s">> >>,
     <<"True", <<"t", "r", "u", "e">> >>, <<"Var", <<"v", "a", "r">> >>,
     <<"While", <<"w", "h", "i", "l", "e">> >>}

KeywordKinds == {w[1] : w \in ReservedWords}

\* C8: keyword recognition is exact and case-sensitive.  A token of the
\* identifier sub-scan is a keyword token, of the word's kind and with the
\* empty literal, if and only if its whole text is one of the sixteen
\* reserved words; otherwise it is an Identifier whose literal is its text.
\* In a scan that returns, that text is the text the sub-scan consumed.
C8_KeywordsExact ==
    \A i \in DOMAIN spans :
        tokens[i].type \in KeywordKinds \cup {"Identifier"} =>
            /\ IF \E w \in ReservedWords : w[2] = tokens[i].lexeme
               THEN /\ <<tokens[i].type, tokens[i].lexeme>> \in ReservedWords
                    /\ tokens[i].literal = <<>>
               ELSE /\ tokens[i].type = "Identifier"
                    /\ tokens[i].literal = tokens[i].lexeme
            /\ pc = "returned" => tokens[i].lexeme = SpanText(spans[i])
            /\ CharAt(spans[i][1]) \in IdentifierStart
            /\ \A p \in (spans[i][1] + 1)..(spans[i][2] - 1) : IsAlphanumeric(CharAt(p))
            /\ ~IsAlphanumeric(CharAt(spans[i][2]))

\* C8 happens: a keyword and then a longer word that begins with a keyword
\* were scanned.
C8_Witness ==
    /\ pc = "returned" /\ Len(returned) >= 3
    /\ returned[1].type \in KeywordKinds
    /\ returned[2].type = "Identifier"
    /\ \E w \in ReservedWords :
          /\ Len(returned[2].lexeme) > Len(w[2])
          /\ SubSeq(returned[2].lexeme, 1, Len(w[2])) = w[2]

OperatorKinds ==
    {"Bang", "BangEqual", "Equal", "EqualEqual", "Greater", "GreaterEqual",
     "Less", "LessEqual"}

\* The kind of the operator that begins with c, of two characters or of one.
OperatorKind(c, two) ==
    CASE c = "!" -> IF two THEN "BangEqual" ELSE "Bang"
      [] c = "=" -> IF two THEN "EqualEqual" ELSE "Equal"
      [] c = "<" -> IF two THEN "LessEqual" ELSE "Less"
      [] c = ">" -> IF two THEN "GreaterEqual" ELSE "Greater"

\* C9: operator maximal munch.  A token that begins at one of ! = < > is of
\* the two-character kind, with a lexeme of two bytes, if and only if the
\* character that follows is =; otherwise it is of the one-character kind,
\* with a lexeme of one byte, and the cursor stays on the character that
\* follows, where the next lexeme begins.
C9_OperatorMunch ==
    \A i \in DOMAIN spans :
        LET from == spans[i][1]
            two == CharAt(from + 1) = "="
        IN  /\ tokens[i].type \in OperatorKinds <=> CharAt(from) \in OperatorChars
            /\ CharAt(from) \in OperatorChars =>
                  /\ tokens[i].type = OperatorKind(CharAt(from), two)
                  /\ spans[i][2] = from + (IF two THEN 2 ELSE 1)
                  /\ ByteLen(tokens[i].lexeme) = (IF two THEN 2 ELSE 1)
                  /\ pc = "returned" => tokens[i].lexeme = SpanText(spans[i])
                  /\ i + 1 \in DOMAIN spans => spans[i + 1][1] >= spans[i][2]
                  /\ i = Len(spans) /\ pc = "scanning" /\ start = from =>
                        current = spans[i][2]

\* C9 happens: a two-character operator and then the one-character operator =
\* were scanned.
C9_Witness ==
    /\ pc = "returned" /\ Len(returned) = 3
    /\ returned[1].type = "BangEqual"
    /\ returned[2].type = "Equal"

\* The positions of '.' in a text.
Dots(text) == {k \in 1..Len(text) : text[k] = "."}

\* A digit run, or a digit run, one '.', and a digit run.
IsNumberText(text) ==
    /\ Len(text) >= 1
    /\ \A k \in 1..Len(text) : text[k] \in AsciiDigit \cup {"."}
    /\ Cardinality(Dots(text)) <= 1
    /\ text[1] # "." /\ text[Len(text)] # "."

\* C10: number boundary.  The text a Number token consumes is a maximal digit
\* run, optionally followed by one '.' and a non-empty maximal digit run; a
\* '.' is consumed only when a digit follows it, so a trailing '.' is left and
\* is the next token, a Dot, and a token that begins at '.' is a Dot.  The
\* literal of a Number token is its lexeme, and in a scan that returns both are
\* the text consumed.
C10_NumberBoundary ==
    \A i \in DOMAIN spans :
        LET to == spans[i][2]
            text == SpanText(spans[i])
        IN  /\ tokens[i].type = "Number" =>
                  /\ IsNumberText(text)
                  /\ ~IsDigit(CharAt(to))
                  /\ CharAt(to) = "." /\ Dots(text) = {} => ~IsDigit(CharAt(to + 1))
                  /\ tokens[i].literal = tokens[i].lexeme
                  /\ pc = "returned" => tokens[i].lexeme = text
                  /\ CharAt(to) = "." /\ i + 1 \in DOMAIN spans =>
                        /\ tokens[i + 1].type = "Dot"
                        /\ spans[i + 1] = <<to, to + 1>>
            /\ CharAt(spans[i][1]) = "." =>
                  /\ tokens[i].type = "Dot"
                  /\ to = spans[i][1] + 1
            /\ CharAt(spans[i][1]) \in AsciiDigit => tokens[i].type = "Number"

\* C10 happens: a number with a fraction, the '.' left behind it and a
\* further number were scanned.
C10_Witness ==
    /\ pc = "returned" /\ Len(returned) = 4
    /\ returned[1].type = "Number" /\ Cardinality(Dots(returned[1].lexeme)) = 1
    /\ returned[2].type = "Dot"
    /\ returned[3].type = "Number"

----------------------------------------------------------------------------
\* The last iteration of the loop began at an opening quote: string() has run
\* on the text from start.
StringScanned == current > start /\ CharAt(start) = "\""

\* The position of the first quote behind the opening quote at start.
ClosingQuote ==
    CHOOSE q \in (start + 1)..(Len(source) - 1) :
        /\ CharAt(q) = "\""
        /\ \A p \in (start + 1)..(q - 1) : CharAt(p) # "\""

\* C11: behind an opening quote the scan fails with UnterminatedString if and
\* only if the rest of the text holds no closing quote; otherwise one String
\* token is emitted, the closing quote is consumed, the lexeme is the text
\* from quote to quote and the literal is the text strictly between them.
C11_StringLiteral ==
    StringScanned =>
        IF \A p \in (start + 1)..(Len(source) - 1) : CharAt(p) # "\""
        THEN pc = "failed" /\ errors = <<UnterminatedString>>
        ELSE /\ pc \in {"scanning", "returned"}
             /\ errors = <<>>
             /\ current = ClosingQuote + 1
             /\ spans # <<>>
             /\ spans[Len(spans)] = <<start, current>>
             /\ tokens[Len(spans)].type = "String"
             /\ tokens[Len(spans)].lexeme = SubSeq(source, start + 1, current)
             /\ tokens[Len(spans)].literal = SubSeq(source, start + 2, current - 1)

----------------------------------------------------------------------------
\* The last iteration of the loop began at a '/'.
SlashScanned == current > start /\ CharAt(start) = "/"

\* The position behind the line comment that begins at start: the next line
\* feed, or the end of the text when there is none.
CommentEnd ==
    CHOOSE e \in (start + 2)..Len(source) :
        /\ e < Len(source) => CharAt(e) = "\n"
        /\ \A p \in (start + 2)..(e - 1) : CharAt(p) # "\n"

\* C12: behind // every character up to the next line feed, or up to the end
\* of the text, is consumed; the scan goes on with no error, no token is
\* emitted for the comment, no token reaches into it, and the line feed is
\* left to the next iteration, which counts it.  A '/' not followed by '/'
\* is a Slash token.
C12_CommentSkipped ==
    SlashScanned =>
        IF CharAt(start + 1) = "/"
        THEN /\ pc \in {"scanning", "returned"}
             /\ errors = <<>>
             /\ current = CommentEnd
             /\ line = 1 + LineFeedsBefore(start)
             /\ \A i \in DOMAIN spans : spans[i][2] <= start
        ELSE /\ current = start + 1
             /\ spans # <<>>
             /\ spans[Len(spans)] = <<start, current>>
             /\ tokens[Len(spans)].type = "Slash"

----------------------------------------------------------------------------
\* The characters that begin a lexeme or are skipped between lexemes.
LexemeStarts ==
    {"(", ")", "{", "}", ",", ".", "-", "+", ";", "*", "!", "=", "<", ">", "/",
     " ", "\r", "\t", "\n", "\""}
        \cup AsciiDigit \cup AsciiLower \cup AsciiUpper \cup {"_"}

\* C13: UnexpectedCharacter(c) is raised if and only if the dispatcher reads,
\* at the start of a lexeme, a character c that begins no lexeme and is not
\* skipped; the error carries that character, and the character lies in no
\* string literal and in no line comment.
C13_UnexpectedCharacter ==
    /\ current > start /\ CharAt(start) \notin LexemeStarts \cup {NONE} =>
          /\ pc = "failed"
          /\ errors = <<UnexpectedCharacter(CharAt(start))>>
    /\ \A i \in DOMAIN errors :
          errors[i].kind = "UnexpectedCharacter" =>
              /\ current = start + 1
              /\ errors[i].char = CharAt(start)
              /\ CharAt(start) \notin LexemeStarts
              /\ ~InSomeSpan(start)
              /\ ~Skipped(start)

\* C13 happens: a scan passed the character '@' inside a string literal or a
\* line comment and failed at the same character at the start of a lexeme.
C13_Witness ==
    /\ pc = "failed"
    /\ errors = <<UnexpectedCharacter("@")>>
    /\ \E p \in 0..(start - 1) : CharAt(p) = "@"

----------------------------------------------------------------------------
\* C14: every error a scan returns carries the line it is associated with,
\* the line the scan stopped on: the error value has a line, and it is the
\* line counter of the scanner.
C14_ErrorCarriesLine ==
    \A i \in DOMAIN errors :
        /\ "line" \in DOMAIN errors[i]
        /\ errors[i].line = line

----------------------------------------------------------------------------
----------------------------------------------------------------------------
\* C16: at every boundary of the main loop, between two iterations and at the
\* return, line is 1 plus the number of line feeds among the characters
\* consumed so far, the first current characters of the text: a line feed
\* between lexemes, at the end of a comment or inside a string literal adds
\* one, and no other character changes line.
C16_LineCounter ==
    pc \in {"scanning", "returned"} => line = 1 + LineFeedsBefore(current)

\* C16 happens: a scan returned that consumed a line feed behind a comment,
\* one inside a string literal and one between lexemes.
C16_Witness ==
    /\ pc = "returned"
    /\ line >= 4
    /\ \E p \in 0..(Len(source) - 1) : CharAt(p) = "/" /\ Skipped(p)
    /\ \E i \in DOMAIN spans :
          /\ tokens[i].type = "String"
          /\ \E k \in DOMAIN tokens[i].literal : tokens[i].literal[k] = "\n"
    /\ source[Len(source)] = "\n"

----------------------------------------------------------------------------
\* A call of scan_tokens() has ended as the scan of a new Scanner over the
\* same text ends: with the same tokens, or with the same error.
SameAsFreshScan ==
    /\ pc = "returned" =>
          /\ FreshScan.out = "ok"
          /\ returned = FreshScan.s.tokens
    /\ pc = "failed" =>
          /\ FreshScan.out = "err"
          /\ errors = <<FreshScan.err>>

\* C17: a Scanner holds no state that outlives a scan: a further call of
\* scan_tokens() on the same Scanner, after a call that returned tokens or an
\* error, ends as the one scan of a new Scanner over the same text.
C17_SecondScanAsFresh ==
    calls >= 2 /\ pc \in {"returned", "failed"} => SameAsFreshScan

----------------------------------------------------------------------------
\* C18: an underscore is taken only as the first character of an identifier.
\* The text of an Identifier or keyword token has no underscore behind its
\* first character; an underscore behind such a token is not part of it and
\* begins the next token, an Identifier; in a scan that returns, the lexeme
\* of the token is that text.
C18_UnderscoreOnlyFirst ==
    \A i \in DOMAIN spans :
        tokens[i].type \in KeywordKinds \cup {"Identifier"} =>
            /\ \A p \in (spans[i][1] + 1)..(spans[i][2] - 1) : CharAt(p) # "_"
            /\ CharAt(spans[i][1]) = "_" => tokens[i].type = "Identifier"
            /\ CharAt(spans[i][2]) = "_" /\ i + 1 \in DOMAIN spans =>
                  /\ spans[i + 1][1] = spans[i][2]
                  /\ tokens[i + 1].type = "Identifier"
            /\ pc = "returned" =>
                  \A k \in 2..Len(tokens[i].lexeme) : tokens[i].lexeme[k] # "_"

\* C18 happens: print_x was scanned as the keyword Print and the identifier _x.
C18_Witness ==
    /\ pc = "returned" /\ Len(returned) = 3
    /\ returned[1].type = "Print"
    /\ returned[2].type = "Identifier"
    /\ returned[2].lexeme = <<"_", "x">>

====
